---- MODULE Spec2Model ----
(***************************************************************************)
(* A model of gitlab_ops (src/main.rs): credential resolution, terminal    *)
(* setup, the single GraphQL fetch, the render/input loop of run_app and   *)
(* the terminal restore sequence of main.                                  *)
(***************************************************************************)
EXTENDS Integers, Sequences, FiniteSets, TLC

VARIABLES
    pc,               \* position of main / run_app
    overflow_checks,  \* build: TRUE = arithmetic overflow panics (debug), FALSE = wraps (release)
    env_token,        \* GITLAB_TOKEN after dotenv(): Option of a string
    env_host,         \* GITLAB_HOST after dotenv(): Option of a string
    gitlab_token,     \* main's gitlab_token: Option of a string
    gitlab_host,      \* main's gitlab_host: Option of a string
    env_file,         \* lines appended to .env by this run
    raw_mode,         \* terminal is in raw mode
    alt_screen,       \* terminal shows the alternate screen
    raw_disables,     \* number of successful disable_raw_mode calls
    alt_leaves,       \* number of successful LeaveAlternateScreen commands
    reply,            \* fetch_projects: what the runtime and the server delivered: Option
    fetched,          \* fetch_projects: the Result about to be returned: Option
    projects,         \* app_state.projects
    selected_index,   \* app_state.selected_index
    list_state,       \* app_state.list_state.selected(): Option of an index
    res,              \* result of run_app: "none", "ok", "err"
    stderr,           \* messages written to standard error, in order
    exit_status,      \* Option of the process exit status
    stdout,           \* prompts written to standard output, in order
    fetch_calls,      \* number of calls of fetch_projects so far
    event,            \* run_app: the event handled in the iteration that just ended: Option
    details,          \* the project render_ui put in the Details panel of the last frame: Option
    renders_since_event  \* frames run_app has drawn since it last read an event

vars == <<pc, overflow_checks, env_token, env_host, gitlab_token, gitlab_host,
          env_file, raw_mode, alt_screen, raw_disables, alt_leaves, reply,
          fetched, projects, selected_index, list_state, res, stderr, exit_status,
          stdout, fetch_calls, event, details, renders_since_event>>

\* ---------------------------------------------------------------- bounds

\* Longest nodes array a modelled server reply carries.
MaxNodes == 3

\* Cap on selected_index while it runs away on an empty list (release build).
MaxSel == 3

\* usize::MAX, the value 0usize - 1 wraps to; TLC's integers end at 2^31 - 1.
UsizeMax == 2147483647

\* ---------------------------------------------------------------- Option

None == <<>>
Some(x) == <<x>>
IsSome(o) == Len(o) = 1
IsNone(o) == Len(o) = 0

\* Option::unwrap_or
UnwrapOr(o, d) == IF IsNone(o) THEN d ELSE o[1]

\* ---------------------------------------------------------------- strings

\* Characters str::trim removes.
Whitespace == {" ", "\n", "\t"}

RECURSIVE TrimStart(_)
TrimStart(s) ==
    IF Len(s) > 0 /\ s[1] \in Whitespace THEN TrimStart(Tail(s)) ELSE s

RECURSIVE TrimEnd(_)
TrimEnd(s) ==
    IF Len(s) > 0 /\ s[Len(s)] \in Whitespace
    THEN TrimEnd(SubSeq(s, 1, Len(s) - 1))
    ELSE s

\* str::trim on a string held as a sequence of characters
Trim(s) == TrimEnd(TrimStart(s))

\* Values the environment may hold for a credential after dotenv().
EnvValues == <<None, Some(<<>>), Some(<<"t">>)>>

\* Lines read_line may deliver at the prompt (<<>> is end of input).
StdinLines == << <<>>, <<"\n">>, <<" ", "\t", "\n">>, <<"t", "\n">>, <<" ", "t", " ", "\n">> >>

\* ---------------------------------------------------------------- JSON

JNull == [t |-> "null"]
JNum == [t |-> "num"]
JStr(s) == [t |-> "str", s |-> s]
JArr(a) == [t |-> "arr", a |-> a]
JObj(o) == [t |-> "obj", o |-> o]
\* The empty JSON object.
JEmpty == [t |-> "obj", o |-> <<>>]

\* serde_json::Value::get with a string index
Get(v, k) == IF v.t = "obj" /\ k \in DOMAIN v.o THEN Some(v.o[k]) ELSE None

\* serde_json::Value::as_str
AsStr(v) == IF v.t = "str" THEN Some(v.s) ELSE None

\* serde_json::Value::as_array
AsArray(v) == IF v.t = "arr" THEN Some(v.a) ELSE None

\* opt.and_then(|v| v.get(k))
AndThenGet(o, k) == IF IsNone(o) THEN None ELSE Get(o[1], k)

\* opt.and_then(|v| v.as_str())
AndThenAsStr(o) == IF IsNone(o) THEN None ELSE AsStr(o[1])

\* opt.and_then(|v| v.as_array())
AndThenAsArray(o) == IF IsNone(o) THEN None ELSE AsArray(o[1])

\* ---------------------------------------------------------------- fetch_projects

\* struct Project
Project(name, description, web_url) ==
    [name |-> name, description |-> description, web_url |-> web_url]

\* ProjectOfNode with the placeholder of name used for description as well
ProjectOfNode_OneDefault(node) ==
    Project(UnwrapOr(AndThenAsStr(Get(node, "name")), "N/A"),
            UnwrapOr(AndThenAsStr(Get(node, "description")), "N/A"),
            UnwrapOr(AndThenAsStr(Get(node, "webUrl")), "N/A"))

\* One iteration of the loop over nodes: the three fields with their defaults.
ProjectOfNode(node) ==
    Project(UnwrapOr(AndThenAsStr(Get(node, "name")), "N/A"),
            UnwrapOr(AndThenAsStr(Get(node, "description")), "No description"),
            UnwrapOr(AndThenAsStr(Get(node, "webUrl")), "N/A"))

\* for node in nodes { ... projects.push(Project { .. }) }
RECURSIVE PushNodes(_, _)
PushNodes(nodes, acc) ==
    IF Len(nodes) = 0 THEN acc
    ELSE PushNodes(Tail(nodes), Append(acc, ProjectOfNode(Head(nodes))))

\* response.get("data").and_then(..get("projects")).and_then(..get("nodes")).and_then(as_array)
NodesOf(response) ==
    AndThenAsArray(AndThenGet(AndThenGet(Get(response, "data"), "projects"), "nodes"))

\* The part of fetch_projects after the response has been decoded.
ParseProjects(response) ==
    LET nodes == NodesOf(response)
    IN  IF IsSome(nodes) THEN PushNodes(nodes[1], <<>>) ELSE <<>>

Ok(v) == [ok |-> TRUE, val |-> v]
Err == [ok |-> FALSE, val |-> <<>>]

\* A body that is not JSON.
Malformed == [t |-> "malformed"]

\* fetch_projects that reports a response without data.projects.nodes as an error
fetch_projects_StrictPath(r) ==
    IF r.kind \in {"runtime_err", "conn_err"} THEN Err
    ELSE IF r.body.t = "malformed" THEN Err
    ELSE IF IsNone(NodesOf(r.body)) THEN Err
    ELSE Ok(ParseProjects(r.body))

\* fetch_projects as a function of what the runtime and the server deliver.
fetch_projects(r) ==
    IF r.kind \in {"runtime_err", "conn_err"} THEN Err
    ELSE IF r.body.t = "malformed" THEN Err
    ELSE Ok(ParseProjects(r.body))

\* Nodes a server may put in the array.
NodeFull ==
    JObj([id |-> JStr("gid"), name |-> JStr("A"), description |-> JStr("d"),
          webUrl |-> JStr("http://x")])
NodeNameOnly == JObj([name |-> JStr("B")])
NodeNonString == JObj([name |-> JNum, description |-> JNull, webUrl |-> JArr(<<>>)])
NodeNoName == JObj([description |-> JStr(""), webUrl |-> JStr("http://y")])
NodeScalar == JNum

NodeChoices == <<NodeFull, NodeNameOnly, NodeNonString, NodeNoName, NodeScalar>>

RECURSIVE SeqsOfLen(_, _)
SeqsOfLen(S, n) ==
    IF n = 0 THEN {<<>>}
    ELSE {Append(s, x) : s \in SeqsOfLen(S, n - 1), x \in S}

RECURSIVE NodesAt(_)
NodesAt(ixs) ==
    IF Len(ixs) = 0 THEN <<>>
    ELSE <<NodeChoices[Head(ixs)]>> \o NodesAt(Tail(ixs))

\* {"data": {"projects": {"nodes": nodes}}}
WellFormed(nodes) ==
    JObj([data |-> JObj([projects |-> JObj([nodes |-> JArr(nodes)])])])

\* JSON bodies in which the path data.projects.nodes breaks at some level.
BrokenBodies ==
    << JNull,
       JArr(<<>>),
       JObj([errors |-> JArr(<<JStr("denied")>>)]),
       JObj([data |-> JNull]),
       JObj([data |-> JEmpty]),
       JObj([data |-> JObj([projects |-> JNum])]),
       JObj([data |-> JObj([projects |-> JEmpty])]),
       JObj([data |-> JObj([projects |-> JObj([nodes |-> JNull])])]),
       JObj([data |-> JObj([projects |-> JObj([nodes |-> JStr("x")])])]),
       JObj([data |-> JObj([projects |-> JObj([nodes |-> NodeFull])])]) >>

\* HTTP statuses a reply may carry.
Statuses == {200, 401}

\* Everything the runtime and the server may deliver to the single request.
Replies ==
    {[kind |-> "runtime_err"], [kind |-> "conn_err"]}
    \cup {[kind |-> "http", status |-> st, body |-> Malformed] : st \in Statuses}
    \cup {[kind |-> "http", status |-> st, body |-> BrokenBodies[i]] :
            st \in Statuses, i \in DOMAIN BrokenBodies}
    \cup {[kind |-> "http", status |-> st, body |-> WellFormed(NodesAt(ixs))] :
            st \in Statuses,
            ixs \in UNION {SeqsOfLen(DOMAIN NodeChoices, n) : n \in 0..MaxNodes}}

\* ---------------------------------------------------------------- credentials

\* FromEnv without the is_empty guard: an empty variable counts as a value
FromEnv_AcceptsEmpty(env) == IsSome(env)

\* The match guard `Ok(v) if !v.is_empty()`: the environment supplies the value.
FromEnv(env) == IsSome(env) /\ Len(env[1]) > 0

\* get_gitlab_token as a function of the environment and the line read at the prompt
get_gitlab_token(env, line) ==
    IF FromEnv(env) THEN env
    ELSE LET token == Trim(line)
         IN  IF Len(token) = 0 THEN None ELSE Some(token)

\* get_gitlab_host without the is_empty check on the trimmed input
get_gitlab_host_NoEmptyCheck(env, line) ==
    IF FromEnv(env) THEN env ELSE Some(Trim(line))

\* get_gitlab_host as a function of the environment and the line read at the prompt
get_gitlab_host(env, line) ==
    IF FromEnv(env) THEN env
    ELSE LET host == Trim(line)
         IN  IF Len(host) = 0 THEN None ELSE Some(host)

\* ---------------------------------------------------------------- selection

\* projects.len() - 1 on usize: wraps when overflow checks are off
WrappingSub1(n) == IF n = 0 THEN UsizeMax ELSE n - 1

\* DownIndex with the guard written against len instead of len - 1
DownIndex_OffByOne(idx, len) == IF idx < len THEN idx + 1 ELSE idx

\* DownIndex that wraps from the last item to the first
DownIndex_Wrap(idx, len) == IF idx < WrappingSub1(len) THEN idx + 1 ELSE 0

\* KeyCode::Down: the new selected_index
DownIndex(idx, len) == IF idx < WrappingSub1(len) THEN idx + 1 ELSE idx

\* KeyCode::Up: the new selected_index
UpIndex(idx) == IF idx > 0 THEN idx - 1 ELSE idx

\* What rendering the List widget does to list_state.selected: nothing on an
\* empty area; otherwise an empty list clears it and an index past the end is
\* moved to the last item.
RenderSelected(ls, len, area_empty) ==
    IF area_empty THEN ls
    ELSE IF len = 0 THEN None
    ELSE IF IsSome(ls) /\ ls[1] >= len THEN Some(len - 1)
    ELSE ls

\* Vec::get with a zero-based index
VecGet(v, i) == IF i < Len(v) THEN Some(v[i + 1]) ELSE None

\* RenderDetails that always shows the first project
RenderDetails_First(projs, idx) == VecGet(projs, 0)

\* render_ui: the project whose fields the Details panel shows, if any
RenderDetails(projs, idx) == VecGet(projs, idx)

\* ---------------------------------------------------------------- the program

\* The prompts of get_gitlab_token and get_gitlab_host
TokenPrompt == "Enter your GitLab token (leave blank to exit): "
HostPrompt == "Enter your GitLab host (leave blank to exit): "

Range(f) == {f[i] : i \in DOMAIN f}

Init ==
    /\ pc = "token"
    /\ overflow_checks \in BOOLEAN
    /\ env_token \in Range(EnvValues)
    /\ env_host \in Range(EnvValues)
    /\ gitlab_token = None
    /\ gitlab_host = None
    /\ env_file = <<>>
    /\ raw_mode = FALSE
    /\ alt_screen = FALSE
    /\ raw_disables = 0
    /\ alt_leaves = 0
    /\ reply = None
    /\ fetched = None
    /\ projects = <<>>
    /\ selected_index = 0
    /\ list_state = None
    /\ res = "none"
    /\ stderr = <<>>
    /\ exit_status = None
    /\ stdout = <<>>
    /\ fetch_calls = 0
    /\ event = None
    /\ details = None
    /\ renders_since_event = 0

\* std::process::exit(code) after a message on standard error
Exit(msg, code) ==
    /\ stderr' = Append(stderr, msg)
    /\ exit_status' = Some(code)
    /\ pc' = "exit"

\* `?` in main on an Err: main returns it, the runtime prints it and exits 1
MainReturnsErr == Exit("main returned Err", 1)

\* A panic: message on standard error, exit status 101, nothing after it runs
Panic == Exit("panicked", 101)

\* main, lines 42-45, with get_gitlab_token
GetGitlabToken ==
    /\ pc = "token"
    /\ \E line \in Range(StdinLines), write_ok \in BOOLEAN :
         LET token == get_gitlab_token(env_token, line)
         IN  IF IsNone(token)
             THEN /\ Exit("GitLab token is required. Exiting.", 1)
                  /\ UNCHANGED <<gitlab_token, env_file>>
             ELSE /\ gitlab_token' = token
                  /\ pc' = "host"
                  /\ exit_status' = exit_status
                  /\ IF FromEnv(env_token)
                     THEN UNCHANGED <<env_file, stderr>>
                     ELSE IF write_ok
                     THEN /\ env_file' = Append(env_file, <<"GITLAB_TOKEN", token[1]>>)
                          /\ stderr' = stderr
                     ELSE /\ env_file' = env_file
                          /\ stderr' = Append(stderr, "Failed to save token to .env")
    /\ UNCHANGED <<overflow_checks, env_token, env_host, gitlab_host, raw_mode,
                   alt_screen, raw_disables, alt_leaves, reply, fetched, projects,
                   selected_index, list_state, res>>
    /\ stdout' = IF FromEnv(env_token) THEN stdout ELSE Append(stdout, TokenPrompt)
    /\ UNCHANGED <<fetch_calls, event, details, renders_since_event>>

\* main, lines 48-51, with get_gitlab_host
GetGitlabHost ==
    /\ pc = "host"
    /\ \E line \in Range(StdinLines), write_ok \in BOOLEAN :
         LET host == get_gitlab_host(env_host, line)
         IN  IF IsNone(host)
             THEN /\ Exit("GitLab host is required. Exiting.", 1)
                  /\ UNCHANGED <<gitlab_host, env_file>>
             ELSE /\ gitlab_host' = host
                  /\ pc' = "raw"
                  /\ exit_status' = exit_status
                  /\ IF FromEnv(env_host)
                     THEN UNCHANGED <<env_file, stderr>>
                     ELSE IF write_ok
                     THEN /\ env_file' = Append(env_file, <<"GITLAB_HOST", host[1]>>)
                          /\ stderr' = stderr
                     ELSE /\ env_file' = env_file
                          /\ stderr' = Append(stderr, "Failed to save host to .env")
    /\ UNCHANGED <<overflow_checks, env_token, env_host, gitlab_token, raw_mode,
                   alt_screen, raw_disables, alt_leaves, reply, fetched, projects,
                   selected_index, list_state, res>>
    /\ stdout' = IF FromEnv(env_host) THEN stdout ELSE Append(stdout, HostPrompt)
    /\ UNCHANGED <<fetch_calls, event, details, renders_since_event>>

\* io::stdin().read_line(..).unwrap() on an Err, in either prompt
StdinPanic ==
    /\ \/ pc = "token" /\ ~FromEnv(env_token)
       \/ pc = "host" /\ ~FromEnv(env_host)
    /\ Panic
    /\ UNCHANGED <<overflow_checks, env_token, env_host, gitlab_token, gitlab_host,
                   env_file, raw_mode, alt_screen, raw_disables, alt_leaves, reply, fetched,
                   projects, selected_index, list_state, res>>
    /\ stdout' = Append(stdout, IF pc = "token" THEN TokenPrompt ELSE HostPrompt)
    /\ UNCHANGED <<fetch_calls, event, details, renders_since_event>>

\* enable_raw_mode()?
EnableRawMode ==
    /\ pc = "raw"
    /\ \E ok \in BOOLEAN :
         IF ok
         THEN raw_mode' = TRUE /\ pc' = "alt" /\ UNCHANGED <<stderr, exit_status>>
         ELSE MainReturnsErr /\ raw_mode' = raw_mode
    /\ UNCHANGED <<overflow_checks, env_token, env_host, gitlab_token, gitlab_host,
                   env_file, alt_screen, raw_disables, alt_leaves, reply, fetched, projects,
                   selected_index, list_state, res>>
    /\ UNCHANGED <<stdout, fetch_calls, event, details, renders_since_event>>

\* execute!(stdout, EnterAlternateScreen)?
EnterAlternateScreen ==
    /\ pc = "alt"
    /\ \E ok \in BOOLEAN :
         IF ok
         THEN alt_screen' = TRUE /\ pc' = "term" /\ UNCHANGED <<stderr, exit_status>>
         ELSE MainReturnsErr /\ alt_screen' = alt_screen
    /\ UNCHANGED <<overflow_checks, env_token, env_host, gitlab_token, gitlab_host,
                   env_file, raw_mode, raw_disables, alt_leaves, reply, fetched, projects,
                   selected_index, list_state, res>>
    /\ UNCHANGED <<stdout, fetch_calls, event, details, renders_since_event>>

\* Terminal::new(backend)?
TerminalNew ==
    /\ pc = "term"
    /\ \E ok \in BOOLEAN :
         IF ok
         THEN pc' = "fetch" /\ UNCHANGED <<stderr, exit_status>>
         ELSE MainReturnsErr
    /\ UNCHANGED <<overflow_checks, env_token, env_host, gitlab_token, gitlab_host,
                   env_file, raw_mode, alt_screen, raw_disables, alt_leaves, reply, fetched,
                   projects, selected_index, list_state, res>>
    /\ UNCHANGED <<stdout, fetch_calls, event, details, renders_since_event>>

\* fetch_projects up to the await of the request: the reply arrives
FetchSend ==
    /\ pc = "fetch"
    /\ \E r \in Replies : reply' = Some(r)
    /\ pc' = "await"
    /\ UNCHANGED <<overflow_checks, env_token, env_host, gitlab_token, gitlab_host,
                   env_file, raw_mode, alt_screen, raw_disables, alt_leaves, fetched,
                   projects, selected_index, list_state, res, stderr, exit_status>>
    /\ fetch_calls' = fetch_calls + 1
    /\ UNCHANGED <<stdout, event, details, renders_since_event>>

\* fetch_projects from the reply to its return value
FetchParse ==
    /\ pc = "await"
    /\ fetched' = Some(fetch_projects(reply[1]))
    /\ pc' = "parsed"
    /\ UNCHANGED <<overflow_checks, env_token, env_host, gitlab_token, gitlab_host,
                   env_file, raw_mode, alt_screen, raw_disables, alt_leaves, reply,
                   projects, selected_index, list_state, res, stderr, exit_status>>
    /\ UNCHANGED <<stdout, fetch_calls, event, details, renders_since_event>>

\* FetchReturn that calls fetch_projects again after an error
FetchReturn_Retry ==
    /\ pc = "parsed"
    /\ IF fetched[1].ok
       THEN projects' = fetched[1].val /\ pc' = "build" /\ stderr' = stderr
       ELSE /\ projects' = projects
            /\ pc' = "fetch"
            /\ stderr' = Append(stderr, "Failed to fetch projects")
    /\ reply' = None
    /\ fetched' = None
    /\ UNCHANGED <<overflow_checks, env_token, env_host, gitlab_token, gitlab_host,
                   env_file, raw_mode, alt_screen, raw_disables, alt_leaves,
                   selected_index, list_state, res, exit_status,
                   stdout, fetch_calls, event, details, renders_since_event>>

\* FetchReturn with `?` in place of unwrap_or_else: the error leaves main
FetchReturn_Propagate ==
    /\ pc = "parsed"
    /\ IF fetched[1].ok
       THEN projects' = fetched[1].val /\ pc' = "build" /\ UNCHANGED <<stderr, exit_status>>
       ELSE projects' = projects /\ MainReturnsErr
    /\ reply' = None
    /\ fetched' = None
    /\ UNCHANGED <<overflow_checks, env_token, env_host, gitlab_token, gitlab_host,
                   env_file, raw_mode, alt_screen, raw_disables, alt_leaves,
                   selected_index, list_state, res>>
    /\ UNCHANGED <<stdout, fetch_calls, event, details, renders_since_event>>

\* fetch_projects returns; main, lines 62-65: unwrap_or_else logs and yields vec![]
FetchReturn ==
    /\ pc = "parsed"
    /\ IF fetched[1].ok
       THEN projects' = fetched[1].val /\ stderr' = stderr
       ELSE projects' = <<>> /\ stderr' = Append(stderr, "Failed to fetch projects")
    /\ reply' = None
    /\ fetched' = None
    /\ pc' = "build"
    /\ UNCHANGED <<overflow_checks, env_token, env_host, gitlab_token, gitlab_host,
                   env_file, raw_mode, alt_screen, raw_disables, alt_leaves,
                   selected_index, list_state, res, exit_status>>
    /\ UNCHANGED <<stdout, fetch_calls, event, details, renders_since_event>>

\* main, lines 67-72: AppState { projects, selected_index: 0, .. }; select(Some(0))
BuildAppState ==
    /\ pc = "build"
    /\ selected_index' = 0
    /\ list_state' = Some(0)
    /\ pc' = "draw"
    /\ UNCHANGED <<overflow_checks, env_token, env_host, gitlab_token, gitlab_host,
                   env_file, raw_mode, alt_screen, raw_disables, alt_leaves, reply, fetched,
                   projects, res, stderr, exit_status>>
    /\ UNCHANGED <<stdout, fetch_calls, event, details, renders_since_event>>

\* Draw whose render_ui drains app_state.projects to build the list items
Draw_DrainsProjects ==
    /\ pc = "draw"
    /\ \E area_empty \in BOOLEAN :
         list_state' = RenderSelected(list_state, Len(projects), area_empty)
    /\ projects' = <<>>
    /\ pc' = "read"
    /\ event' = None
    /\ details' = RenderDetails(projects, selected_index)
    /\ renders_since_event' = renders_since_event + 1
    /\ UNCHANGED <<overflow_checks, env_token, env_host, gitlab_token, gitlab_host,
                   env_file, raw_mode, alt_screen, raw_disables, alt_leaves, reply, fetched,
                   selected_index, res, stderr, exit_status, stdout, fetch_calls>>

\* run_app: terminal.draw(render_ui) succeeds
Draw ==
    /\ pc = "draw"
    /\ \E area_empty \in BOOLEAN :
         list_state' = RenderSelected(list_state, Len(projects), area_empty)
    /\ pc' = "read"
    /\ UNCHANGED <<overflow_checks, env_token, env_host, gitlab_token, gitlab_host,
                   env_file, raw_mode, alt_screen, raw_disables, alt_leaves, reply, fetched,
                   projects, selected_index, res, stderr, exit_status>>
    /\ event' = None
    /\ details' = RenderDetails(projects, selected_index)
    /\ renders_since_event' = renders_since_event + 1
    /\ UNCHANGED <<stdout, fetch_calls>>

\* run_app returns to main with r
Return(r) ==
    /\ res' = r
    /\ pc' = "restore_raw"

\* run_app: terminal.draw(..)? on an Err
DrawErr ==
    /\ pc = "draw"
    /\ Return("err")
    /\ UNCHANGED <<overflow_checks, env_token, env_host, gitlab_token, gitlab_host,
                   env_file, raw_mode, alt_screen, raw_disables, alt_leaves, reply, fetched,
                   projects, selected_index, list_state, stderr, exit_status>>
    /\ event' = None
    /\ details' = None  \* the frame was not completed
    /\ UNCHANGED <<stdout, fetch_calls, renders_since_event>>

\* run_app: event::read()? on an Err
ReadErr ==
    /\ pc = "read"
    /\ Return("err")
    /\ UNCHANGED <<overflow_checks, env_token, env_host, gitlab_token, gitlab_host,
                   env_file, raw_mode, alt_screen, raw_disables, alt_leaves, reply, fetched,
                   projects, selected_index, list_state, stderr, exit_status>>
    /\ renders_since_event' = 0
    /\ UNCHANGED <<stdout, fetch_calls, event, details>>

\* KeyCode::Esc
KeyEsc ==
    /\ pc = "read"
    /\ Return("ok")
    /\ UNCHANGED <<overflow_checks, env_token, env_host, gitlab_token, gitlab_host,
                   env_file, raw_mode, alt_screen, raw_disables, alt_leaves, reply, fetched,
                   projects, selected_index, list_state, stderr, exit_status>>
    /\ renders_since_event' = 0
    /\ UNCHANGED <<stdout, fetch_calls, event, details>>

\* KeyCode::Char('q')
KeyQ ==
    /\ pc = "read"
    /\ Return("ok")
    /\ UNCHANGED <<overflow_checks, env_token, env_host, gitlab_token, gitlab_host,
                   env_file, raw_mode, alt_screen, raw_disables, alt_leaves, reply, fetched,
                   projects, selected_index, list_state, stderr, exit_status>>
    /\ renders_since_event' = 0
    /\ UNCHANGED <<stdout, fetch_calls, event, details>>

\* KeyCode::Down
KeyDown ==
    /\ pc = "read"
    /\ IF Len(projects) = 0 /\ overflow_checks
       THEN \* projects.len() - 1 overflows: the subtraction panics
            /\ Panic
            /\ UNCHANGED <<selected_index, list_state>>
       ELSE /\ Len(projects) = 0 => selected_index < MaxSel
            /\ selected_index' = DownIndex(selected_index, Len(projects))
            /\ list_state' = IF selected_index' # selected_index
                             THEN Some(selected_index')
                             ELSE list_state
            /\ pc' = "draw"
            /\ UNCHANGED <<stderr, exit_status>>
    /\ UNCHANGED <<overflow_checks, env_token, env_host, gitlab_token, gitlab_host,
                   env_file, raw_mode, alt_screen, raw_disables, alt_leaves, reply, fetched,
                   projects, res>>
    /\ renders_since_event' = 0
    /\ event' = IF pc' = "draw" THEN Some("down") ELSE None
    /\ UNCHANGED <<stdout, fetch_calls, details>>

\* KeyUp that moves selected_index without list_state.select
KeyUp_NoSelect ==
    /\ pc = "read"
    /\ selected_index' = UpIndex(selected_index)
    /\ pc' = "draw"
    /\ renders_since_event' = 0
    /\ event' = Some("up")
    /\ UNCHANGED <<overflow_checks, env_token, env_host, gitlab_token, gitlab_host,
                   env_file, raw_mode, alt_screen, raw_disables, alt_leaves, reply, fetched,
                   projects, list_state, res, stderr, exit_status,
                   stdout, fetch_calls, details>>

\* KeyCode::Up
KeyUp ==
    /\ pc = "read"
    /\ selected_index' = UpIndex(selected_index)
    /\ list_state' = IF selected_index' # selected_index
                     THEN Some(selected_index')
                     ELSE list_state
    /\ pc' = "draw"
    /\ UNCHANGED <<overflow_checks, env_token, env_host, gitlab_token, gitlab_host,
                   env_file, raw_mode, alt_screen, raw_disables, alt_leaves, reply, fetched,
                   projects, res, stderr, exit_status>>
    /\ renders_since_event' = 0
    /\ event' = Some("up")
    /\ UNCHANGED <<stdout, fetch_calls, details>>

\* OtherEvent that reads the next event without drawing a frame first
OtherEvent_NoRender ==
    /\ pc = "read"
    /\ pc' = "read"
    /\ renders_since_event' = 0
    /\ event' = Some("other")
    /\ UNCHANGED <<overflow_checks, env_token, env_host, gitlab_token, gitlab_host,
                   env_file, raw_mode, alt_screen, raw_disables, alt_leaves, reply, fetched,
                   projects, selected_index, list_state, res, stderr, exit_status,
                   stdout, fetch_calls, details>>

\* OtherEvent with a catch-all arm that leaves the loop like a quit key
OtherEvent_Quits ==
    /\ pc = "read"
    /\ Return("ok")
    /\ renders_since_event' = 0
    /\ UNCHANGED <<overflow_checks, env_token, env_host, gitlab_token, gitlab_host,
                   env_file, raw_mode, alt_screen, raw_disables, alt_leaves, reply, fetched,
                   projects, selected_index, list_state, stderr, exit_status,
                   stdout, fetch_calls, event, details>>

\* Any other key (the `_ => {}` arm) and any event that is not a key
OtherEvent ==
    /\ pc = "read"
    /\ pc' = "draw"
    /\ UNCHANGED <<overflow_checks, env_token, env_host, gitlab_token, gitlab_host,
                   env_file, raw_mode, alt_screen, raw_disables, alt_leaves, reply, fetched,
                   projects, selected_index, list_state, res, stderr, exit_status>>
    /\ renders_since_event' = 0
    /\ event' = Some("other")
    /\ UNCHANGED <<stdout, fetch_calls, details>>

\* disable_raw_mode()?
DisableRawMode ==
    /\ pc = "restore_raw"
    /\ \E ok \in BOOLEAN :
         IF ok
         THEN /\ raw_mode' = FALSE
              /\ raw_disables' = raw_disables + 1
              /\ pc' = "restore_alt"
              /\ UNCHANGED <<stderr, exit_status>>
         ELSE MainReturnsErr /\ UNCHANGED <<raw_mode, raw_disables>>
    /\ UNCHANGED <<overflow_checks, env_token, env_host, gitlab_token, gitlab_host,
                   env_file, alt_screen, alt_leaves, reply, fetched, projects,
                   selected_index, list_state, res>>
    /\ UNCHANGED <<stdout, fetch_calls, event, details, renders_since_event>>

\* execute!(terminal.backend_mut(), LeaveAlternateScreen)?
LeaveAlternateScreen ==
    /\ pc = "restore_alt"
    /\ \E ok \in BOOLEAN :
         IF ok
         THEN /\ alt_screen' = FALSE
              /\ alt_leaves' = alt_leaves + 1
              /\ pc' = "restore_cursor"
              /\ UNCHANGED <<stderr, exit_status>>
         ELSE MainReturnsErr /\ UNCHANGED <<alt_screen, alt_leaves>>
    /\ UNCHANGED <<overflow_checks, env_token, env_host, gitlab_token, gitlab_host,
                   env_file, raw_mode, raw_disables, reply, fetched, projects,
                   selected_index, list_state, res>>
    /\ UNCHANGED <<stdout, fetch_calls, event, details, renders_since_event>>

\* terminal.show_cursor()?
ShowCursor ==
    /\ pc = "restore_cursor"
    /\ \E ok \in BOOLEAN :
         IF ok
         THEN pc' = "report" /\ UNCHANGED <<stderr, exit_status>>
         ELSE MainReturnsErr
    /\ UNCHANGED <<overflow_checks, env_token, env_host, gitlab_token, gitlab_host,
                   env_file, raw_mode, alt_screen, raw_disables, alt_leaves, reply, fetched,
                   projects, selected_index, list_state, res>>
    /\ UNCHANGED <<stdout, fetch_calls, event, details, renders_since_event>>

\* main, lines 82-86: report run_app's error, then Ok(())
Report ==
    /\ pc = "report"
    /\ stderr' = IF res = "err" THEN Append(stderr, "Error") ELSE stderr
    /\ exit_status' = Some(0)
    /\ pc' = "exit"
    /\ UNCHANGED <<overflow_checks, env_token, env_host, gitlab_token, gitlab_host,
                   env_file, raw_mode, alt_screen, raw_disables, alt_leaves, reply, fetched,
                   projects, selected_index, list_state, res>>
    /\ UNCHANGED <<stdout, fetch_calls, event, details, renders_since_event>>

Next ==
    \/ GetGitlabToken
    \/ GetGitlabHost
    \/ StdinPanic
    \/ EnableRawMode
    \/ EnterAlternateScreen
    \/ TerminalNew
    \/ FetchSend
    \/ FetchParse
    \/ FetchReturn
    \/ BuildAppState
    \/ Draw
    \/ DrawErr
    \/ ReadErr
    \/ KeyEsc
    \/ KeyQ
    \/ KeyDown
    \/ KeyUp
    \/ OtherEvent
    \/ DisableRawMode
    \/ LeaveAlternateScreen
    \/ ShowCursor
    \/ Report

Spec == Init /\ [][Next]_vars

\* ---------------------------------------------------------------- claims

\* C1: in every reachable state, a non-empty project list has
\* 0 <= selected_index < projects.len().
C1_SelectedIndexInBounds ==
    Len(projects) > 0 => (0 <= selected_index /\ selected_index < Len(projects))

\* C1 witness: Down presses have carried the selection to the last of three.
C1_Witness ==
    /\ pc = "read"
    /\ Len(projects) = 3
    /\ selected_index = 2

\* C2: with an empty project list every Up and every Down key is a no-op:
\* selected_index and the list selection stay and the loop goes on to render.
C2_EmptyListArrowsNoOp ==
    [][(Len(projects) = 0 /\ (KeyDown \/ KeyUp))
         => (/\ selected_index' = selected_index
             /\ list_state' = list_state
             /\ pc' = "draw")]_vars

\* C3: whenever the process has ended, raw mode is disabled and the alternate
\* screen is left (raw mode or the alternate screen still on at exit is the
\* case of an exit path that entered them and did not revert them).
C3_TerminalRestoredOnExit ==
    pc = "exit" => (~raw_mode /\ ~alt_screen)

\* C4: after run_app returned Ok(()) (Esc or 'q'), the process ends with raw
\* mode disabled and the alternate screen left, each exactly once.
C4_QuitRestoresOnce ==
    (pc = "exit" /\ res = "ok")
        => (/\ ~raw_mode
            /\ ~alt_screen
            /\ raw_disables = 1
            /\ alt_leaves = 1)

\* C5: after run_app returned an I/O error, the process ends with the terminal
\* restored, the error reported on standard error and a non-zero exit status.
C5_IoErrorExitsNonZero ==
    (pc = "exit" /\ res = "err")
        => (/\ ~raw_mode
            /\ ~alt_screen
            /\ \E i \in DOMAIN stderr : stderr[i] = "Error"
            /\ IsSome(exit_status)
            /\ exit_status[1] # 0)

\* C6: when fetch_projects returns an error main goes on: it logs the error,
\* takes the empty list, builds the state and enters run_app with projects = [].
C6_FetchErrorDegradesToEmpty ==
    [][/\ (pc = "parsed" /\ ~fetched[1].ok)
           => (/\ pc' = "build"
               /\ projects' = <<>>
               /\ exit_status' = None
               /\ stderr' = Append(stderr, "Failed to fetch projects"))
       /\ pc = "build" => (pc' = "draw" /\ projects' = projects)]_vars

\* C6 witness: the loop has rendered once after a failed fetch.
C6_Witness ==
    /\ pc = "read"
    /\ projects = <<>>
    /\ \E i \in DOMAIN stderr : stderr[i] = "Failed to fetch projects"
    /\ IsNone(exit_status)

\* A credential the program holds that has a visible character.
Provided(cred) ==
    IsSome(cred) /\ \E i \in DOMAIN cred[1] : cred[1][i] \notin Whitespace

\* The environment variable is absent or empty.
EnvMissing(env) == env = None \/ env = Some(<<>>)

\* C7: while the token (or the host) is missing from the environment and no
\* non-blank answer has been taken for it, the program is at that prompt or
\* has exited non-zero: raw mode and the alternate screen were never entered,
\* fetch_projects was never called and run_app was never reached.
C7_MissingCredentialExitsEarly ==
    LET token_missing == EnvMissing(env_token) /\ ~Provided(gitlab_token)
        host_missing == EnvMissing(env_host) /\ ~Provided(gitlab_host)
    IN  /\ token_missing => pc \in {"token", "exit"}
        /\ host_missing => pc \in {"token", "host", "exit"}
        /\ (token_missing \/ host_missing)
             => (/\ ~raw_mode
                 /\ ~alt_screen
                 /\ IsNone(reply)
                 /\ IsNone(fetched)
                 /\ res = "none"
                 /\ pc = "exit" => (IsSome(exit_status) /\ exit_status[1] # 0))

\* C7 witness: the token was given at the prompt, the host was left blank.
C7_Witness ==
    /\ pc = "exit"
    /\ EnvMissing(env_token)
    /\ EnvMissing(env_host)
    /\ Provided(gitlab_token)
    /\ IsNone(gitlab_host)
    /\ exit_status = Some(1)
    /\ stderr[Len(stderr)] = "GitLab host is required. Exiting."

\* The body is a JSON value with an array at data.projects.nodes.
HasNodesArray(b) ==
    /\ b.t = "obj"
    /\ "data" \in DOMAIN b.o
    /\ b.o["data"].t = "obj"
    /\ "projects" \in DOMAIN b.o["data"].o
    /\ b.o["data"].o["projects"].t = "obj"
    /\ "nodes" \in DOMAIN b.o["data"].o["projects"].o
    /\ b.o["data"].o["projects"].o["nodes"].t = "arr"

\* The array at data.projects.nodes.
NodesArray(b) == b.o["data"].o["projects"].o["nodes"].a

\* A string field of a node, or the placeholder when missing or not a string.
FieldOr(node, key, placeholder) ==
    IF node.t = "obj" /\ key \in DOMAIN node.o /\ node.o[key].t = "str"
    THEN node.o[key].s
    ELSE placeholder

\* C8: for a response with an array of N nodes at data.projects.nodes,
\* fetch_projects returns Ok with N entries, entry i from node i, each field
\* the node's string or its placeholder.
C8_ParsedListMatchesNodes ==
    (pc = "parsed" /\ reply[1].kind = "http" /\ HasNodesArray(reply[1].body))
        => LET nodes == NodesArray(reply[1].body)
               list == fetched[1].val
           IN  /\ fetched[1].ok
               /\ Len(list) = Len(nodes)
               /\ \A i \in 1..Len(nodes) :
                    /\ list[i].name = FieldOr(nodes[i], "name", "N/A")
                    /\ list[i].description
                         = FieldOr(nodes[i], "description", "No description")
                    /\ list[i].web_url = FieldOr(nodes[i], "webUrl", "N/A")

\* C8 witness: three nodes, the first with a name only, the second complete,
\* the third not an object.
C8_Witness ==
    /\ pc = "parsed"
    /\ reply[1].kind = "http"
    /\ HasNodesArray(reply[1].body)
    /\ Len(NodesArray(reply[1].body)) = 3
    /\ fetched[1].val
         = << Project("B", "No description", "N/A"),
              Project("A", "d", "http://x"),
              Project("N/A", "No description", "N/A") >>

\* C9: for a decoded JSON response without an array at data.projects.nodes,
\* fetch_projects returns Ok with the empty list.
C9_MissingPathIsEmptyOk ==
    (/\ pc = "parsed"
     /\ reply[1].kind = "http"
     /\ reply[1].body.t # "malformed"
     /\ ~HasNodesArray(reply[1].body))
        => (fetched[1].ok /\ fetched[1].val = <<>>)

\* C9 witness: a response whose data is null has been parsed.
C9_Witness ==
    /\ pc = "parsed"
    /\ reply[1].kind = "http"
    /\ reply[1].body.t = "obj"
    /\ "data" \in DOMAIN reply[1].body.o
    /\ reply[1].body.o["data"].t = "null"
    /\ fetched[1].ok

\* C10: the state main builds has selected_index = 0, and the list selection
\* is Some(0) for a non-empty list and None for an empty one.
C10_InitialSelection ==
    [][BuildAppState
         => (/\ selected_index' = 0
             /\ Len(projects') > 0 => list_state' = Some(0)
             /\ Len(projects') = 0 => list_state' = None)]_vars

\* C11: on a list of n >= 1 projects with the index at i, Down sets the index
\* to i + 1 if i + 1 < n and leaves it at i otherwise, and Up sets it to i - 1
\* if i > 0 and leaves it at i otherwise; neither wraps around.
C11_ClampedSteps ==
    [][Len(projects) >= 1
         => (/\ KeyDown
                  => selected_index' = IF selected_index + 1 < Len(projects)
                                       THEN selected_index + 1
                                       ELSE selected_index
             /\ KeyUp
                  => selected_index' = IF selected_index > 0
                                       THEN selected_index - 1
                                       ELSE selected_index)]_vars

\* C11 witness: Down was pressed at the last of three items and the index
\* stayed there.
C11_Witness ==
    /\ pc = "draw"
    /\ event = Some("down")
    /\ Len(projects) = 3
    /\ selected_index = 2
    /\ details = Some(projects[3])

\* C12: an event that is neither Esc, 'q', Up nor Down leaves selected_index,
\* the list selection and projects as they are, raises no error and leaves the
\* loop running (its next step is the render of the next iteration).
C12_OtherEventsIgnored ==
    [][OtherEvent
         => (/\ selected_index' = selected_index
             /\ list_state' = list_state
             /\ projects' = projects
             /\ res' = "none"
             /\ stderr' = stderr
             /\ exit_status' = None
             /\ pc' = "draw")]_vars

\* C12 witness: such an event was handled with the second of two projects
\* selected.
C12_Witness ==
    /\ pc = "draw"
    /\ event = Some("other")
    /\ Len(projects) = 2
    /\ selected_index = 1
    /\ list_state = Some(1)
    /\ res = "none"

\* run_app has been entered (it is running, or main is past it).
UiReached ==
    pc \in {"draw", "read", "restore_raw", "restore_alt", "restore_cursor", "report"}

\* C13: fetch_projects is called at most once; once the UI is reached it has
\* been called exactly once and has returned: no reply is awaited and no
\* result is pending while run_app runs or after it.
C13_SingleFetchBeforeUi ==
    /\ fetch_calls <= 1
    /\ UiReached
         => (/\ fetch_calls = 1
             /\ IsNone(reply)
             /\ IsNone(fetched))
    /\ (IsSome(reply) \/ IsSome(fetched))
         => (/\ pc \in {"await", "parsed"}
             /\ renders_since_event = 0
             /\ IsNone(event)
             /\ IsNone(details))

\* C13 witness: the only fetch failed and the loop waits for its first event.
C13_Witness ==
    /\ pc = "read"
    /\ fetch_calls = 1
    /\ renders_since_event = 1
    /\ stderr[Len(stderr)] = "Failed to fetch projects"

\* C14: from the state main builds onwards, with a non-empty project list the
\* list selection is Some(selected_index), before and after every key event.
C14_SelectionInSync ==
    (UiReached /\ Len(projects) > 0) => list_state = Some(selected_index)

\* C14 witness: Up has moved the selection from the third to the second item.
C14_Witness ==
    /\ pc = "draw"
    /\ event = Some("up")
    /\ Len(projects) = 3
    /\ selected_index = 1
    /\ list_state = Some(1)
    /\ details = Some(projects[3])

\* C15: after every render the Details panel shows the selected project, the
\* one the list highlights, when the list is non-empty, and no project when
\* the list is empty.
C15_DetailsShowSelected ==
    pc = "read"
        => IF Len(projects) = 0
           THEN IsNone(details)
           ELSE /\ details = Some(projects[selected_index + 1])
                /\ list_state = Some(selected_index)

\* C15 witness: the second of two different projects is selected and shown.
C15_Witness ==
    /\ pc = "read"
    /\ Len(projects) = 2
    /\ selected_index = 1
    /\ projects[1] # projects[2]
    /\ details = Some(projects[2])

\* C16: when the request fails at the transport or HTTP level (no connection,
\* a status outside 200..299, or a body that is not JSON), fetch_projects
\* returns an error.
C16_HttpFailureIsErr ==
    (/\ pc = "parsed"
     /\ \/ reply[1].kind # "http"
        \/ reply[1].status \notin 200..299
        \/ reply[1].body.t = "malformed")
        => ~fetched[1].ok

\* C17: once main has built the state, no step of run_app or render_ui (and
\* none after them) changes projects: its length, order and fields stay.
C17_ProjectsFixed ==
    [][UiReached => projects' = projects]_vars

\* C17 witness: two fetched projects are still in place after a render and a
\* Down key.
C17_Witness ==
    /\ pc = "draw"
    /\ event = Some("down")
    /\ selected_index = 1
    /\ projects = << Project("A", "d", "http://x"),
                     Project("B", "No description", "N/A") >>

\* A call of event::read() returns (an event or an error).
EventRead == ReadErr \/ KeyEsc \/ KeyQ \/ KeyDown \/ KeyUp \/ OtherEvent

\* C18: every read of an event comes right after exactly one render, which
\* shows the state as it is when the event is read; a render never follows a
\* render; and a handled event that keeps the loop going leads to the next
\* render, never to another read.
C18_RenderThenOneEvent ==
    [][/\ EventRead
           => (/\ renders_since_event = 1
               /\ details = IF Len(projects) = 0
                            THEN None
                            ELSE Some(projects[selected_index + 1]))
       /\ Draw => renders_since_event = 0
       /\ (EventRead /\ pc' \in {"draw", "read"}) => pc' = "draw"]_vars

\* C18 witness: Up has moved the selection to the first item while the frame
\* still shows the second; no event has been read since.
C18_Witness ==
    /\ pc = "draw"
    /\ event = Some("up")
    /\ renders_since_event = 0
    /\ Len(projects) = 2
    /\ selected_index = 0
    /\ projects[1] # projects[2]
    /\ details = Some(projects[2])

\* run_app is in its loop.
Running == pc \in {"draw", "read"}

\* run_app's loop is over.
Terminated == pc \in {"restore_raw", "restore_alt", "restore_cursor", "report", "exit"}

\* C19: the loop is left only on Esc, on 'q' or on an I/O error of draw or
\* read; once it is left it is never entered again: no further frame is
\* drawn, no further event is read and selected_index stays.
C19_TerminatesOnceOnExitSignal ==
    [][/\ (Running /\ pc' \notin {"draw", "read"})
           => (KeyEsc \/ KeyQ \/ DrawErr \/ ReadErr)
       /\ Terminated
           => (/\ pc' \in {"restore_raw", "restore_alt", "restore_cursor",
                           "report", "exit"}
               /\ selected_index' = selected_index
               /\ details' = details
               /\ renders_since_event' = renders_since_event
               /\ event' = event)]_vars

\* What the step that resolves one credential does to the prompt and to .env,
\* apart from when a line is saved: a value from the environment is used as
\* it is, with no prompt and no write; otherwise the prompt is printed, a line
\* saved is KEY=value with the trimmed value the program goes on with, and
\* nothing is saved when no value was given.
ResolvedBy(env, cred, key, prompt) ==
    IF ~EnvMissing(env)
    THEN /\ cred = env
         /\ stdout' = stdout
         /\ env_file' = env_file
    ELSE /\ stdout' = Append(stdout, prompt)
         /\ env_file' # env_file
              => (/\ Provided(cred)
                  /\ cred[1][1] \notin Whitespace
                  /\ cred[1][Len(cred[1])] \notin Whitespace
                  /\ env_file' = Append(env_file, <<key, cred[1]>>))
         /\ ~Provided(cred) => env_file' = env_file

\* The token is resolved before the host: the host prompt appears only once a
\* token is held, and a run that ends without a token has written nothing.
TokenFirst ==
    /\ (\E i \in DOMAIN stdout' : stdout'[i] = HostPrompt) => IsSome(gitlab_token')
    /\ (pc' = "exit" /\ IsNone(gitlab_token'))
         => (/\ env_file' = <<>>
             /\ IsNone(gitlab_host'))

\* C20: each credential comes from its non-empty environment variable with no
\* prompt and no write, or else from the prompt, and then KEY=value is
\* appended to .env if and only if the trimmed input is non-empty; the token
\* comes before the host.
C20_CredentialResolution ==
    [][/\ (pc = "token" /\ pc' # "token")
           => (/\ ResolvedBy(env_token, gitlab_token', "GITLAB_TOKEN", TokenPrompt)
               /\ (EnvMissing(env_token) /\ Provided(gitlab_token'))
                    => env_file' # env_file)
       /\ (pc = "host" /\ pc' # "host")
           => (/\ ResolvedBy(env_host, gitlab_host', "GITLAB_HOST", HostPrompt)
               /\ (EnvMissing(env_host) /\ Provided(gitlab_host'))
                    => env_file' # env_file)
       /\ TokenFirst]_vars

\* C20 amended: as C20, but a non-empty trimmed input is saved only when the
\* write to .env succeeds; when it fails nothing is appended, the failure is
\* reported on standard error and the value is used all the same.
C20_CredentialResolutionAmended ==
    [][/\ (pc = "token" /\ pc' # "token")
           => (/\ ResolvedBy(env_token, gitlab_token', "GITLAB_TOKEN", TokenPrompt)
               /\ (EnvMissing(env_token) /\ Provided(gitlab_token'))
                    => (/\ pc' = "host"
                        /\ \/ env_file' # env_file /\ stderr' = stderr
                           \/ /\ env_file' = env_file
                              /\ stderr' = Append(stderr, "Failed to save token to .env")))
       /\ (pc = "host" /\ pc' # "host")
           => (/\ ResolvedBy(env_host, gitlab_host', "GITLAB_HOST", HostPrompt)
               /\ (EnvMissing(env_host) /\ Provided(gitlab_host'))
                    => (/\ pc' = "raw"
                        /\ \/ env_file' # env_file /\ stderr' = stderr
                           \/ /\ env_file' = env_file
                              /\ stderr' = Append(stderr, "Failed to save host to .env")))
       /\ TokenFirst]_vars

\* C20 witness: the token was asked for and saved, the write of the host
\* failed, and the program goes on with both.
C20_Witness ==
    /\ pc = "raw"
    /\ env_token = Some(<<>>)
    /\ env_host = None
    /\ stdout = <<TokenPrompt, HostPrompt>>
    /\ env_file = << <<"GITLAB_TOKEN", <<"t">>>> >>
    /\ stderr = <<"Failed to save host to .env">>
    /\ gitlab_host = Some(<<"t">>)

====
